---- MODULE Spec2Model ----
(***************************************************************************)
(* Model of oak_forest_bot_improved_english.py: the Telegram handlers      *)
(* start, help_command and button, the users collection they read and      *)
(* write, and the two pure helpers get_game_time and update_energy.        *)
(*                                                                         *)
(* Time is in whole seconds since the epoch.  One player is modelled: the  *)
(* handlers touch only the document whose user_id is the caller's.         *)
(* A handler is a sequence of store operations (find_one / update_one);    *)
(* each store operation is one step of the handler (operator Step).  The   *)
(* sequential specification Spec runs a handler to completion in one       *)
(* action; SpecConc lets two handlers of the same player take their store  *)
(* operations in any order; SpecTime applies get_game_time to timestamps.  *)
(***************************************************************************)
EXTENDS Integers, Sequences, FiniteSets, TLC

VARIABLES
    now,               \* datetime.utcnow(), seconds since 1970-01-01
    users_collection,  \* user_id -> document (db['users'])
    h,                 \* SpecConc: handler -> its local state
    users0,            \* SpecConc: the collection before the two handlers ran
    game_time,         \* SpecTime: the result of the last get_game_time call
    rnd,               \* SpecThreat: the values random.random() will return
    ret,               \* SpecEnergy, SpecThreat: what the last call returned
    offer              \* SpecStars: a 'collect_star' offer is outstanding

vars == <<now, users_collection, h, users0, game_time, rnd, ret, offer>>

----------------------------------------------------------------------------
(* Bounds of the model. *)

\* the clock advances MaxTicks times in Spec
MaxTicks == 5
\* Spec stops exploring once this level is reached
MaxLevel == 2
\* Spec stops catching stars once the player holds this many
MaxStars == 1
\* SpecTime draws its timestamps from 0..MaxSecond
MaxSecond == 28800

\* one clock step: 24 minutes (less than the half hour one energy point takes,
\* so that update_energy truncates; five steps are the two hours of a recovery
\* and reach the night)
TickSecs == 24 * 60

----------------------------------------------------------------------------
(* Program constants. *)

MaxEnergy == 10
AcornsPerLevel == 50
RewardEnergy == 5
MaxRoll == 5
GameDays == 13
LastDayIndex == 6
MaxStarsAvailable == 3
cycle_duration == 4 * 3600
RecoverySecs == 2 * 3600

TheUser == "u1"

ExploreData == {"explore_north", "explore_south", "explore_underground"}
StarData == {"star_1", "star_2", "star_3"}
Data == {"explore", "collect_star", "status", "help"} \cup ExploreData \cup StarData

Min(a, b) == IF a <= b THEN a ELSE b

\* Python int(): truncation toward zero of num / den (den > 0)
IntTrunc(num, den) == IF num >= 0 THEN num \div den ELSE -((-num) \div den)

----------------------------------------------------------------------------
(* get_game_time.  cycle_duration / 13 is the double 1107.6923076923076,   *)
(* which lies below 14400/13 by less than 2^-43; for whole seconds t the   *)
(* float floor division t // (cycle_duration / 13) is floor(13 t / 14400). *)

\* game_day_of with the slip of leaving out the % 13
game_day_no_wrap(t) == ((GameDays * t) \div cycle_duration) + 1

\* game_day with the slip of a whole-second day length, cycle_duration // 13
game_day_whole_secs(t) == ((t \div (cycle_duration \div GameDays)) % GameDays) + 1

game_day_of(t) == (((GameDays * t) \div cycle_duration) % GameDays) + 1

get_game_time(t) ==
    LET game_day == game_day_of(t)
    IN  [game_day |-> game_day,
         is_night |-> game_day > LastDayIndex,
         time_to_next |-> cycle_duration - (t % cycle_duration)]

----------------------------------------------------------------------------
(* update_energy *)

\* user_data.get(key, default)
Get(user_data, key, default) ==
    IF key \in DOMAIN user_data THEN user_data[key] ELSE default

\* update_energy with the slip of rounding the elapsed half hours up
update_energy_ceil(user_data, t) ==
    LET last_energy_update == Get(user_data, "last_energy_update", t)
        elapsed_secs == t - last_energy_update
    IN  Min(Get(user_data, "energy", MaxEnergy) + ((elapsed_secs + 1799) \div 1800),
            MaxEnergy)

update_energy(user_data, t) ==
    LET last_energy_update == Get(user_data, "last_energy_update", t)
        elapsed_secs == t - last_energy_update
    IN  Min(Get(user_data, "energy", MaxEnergy) + IntTrunc(2 * elapsed_secs, 3600),
            MaxEnergy)

----------------------------------------------------------------------------
(* The users collection: documents and the update_one operations on them. *)
(* The fields user_id, username, trees and squirrels are written once by   *)
(* start and never changed; they are left out of the document.             *)

None == <<>>

\* the '$setOnInsert' document of start
NewUser(t) ==
    [acorns |-> 0, stars |-> 0, squirrel_status |-> "healthy",
     squirrel_recovery_time |-> None, level |-> 1, energy |-> MaxEnergy,
     last_energy_update |-> t]

\* '$set': {'energy': new_energy, 'last_energy_update': datetime.utcnow()}
SetEnergy(doc, new_energy, t) ==
    [doc EXCEPT !.energy = new_energy, !.last_energy_update = t]

\* SetHealthy with the slip of leaving the recovery time in place
HealNoClear(doc) == [doc EXCEPT !.squirrel_status = "healthy"]

\* '$set': {'squirrel_status': 'healthy', 'squirrel_recovery_time': None}
SetHealthy(doc) ==
    [doc EXCEPT !.squirrel_status = "healthy", !.squirrel_recovery_time = None]

\* '$inc': {'energy': -1}
DeductEnergy(doc) == [doc EXCEPT !.energy = @ - 1]

\* SetInjured with the slip of a one-hour recovery
SetInjuredOneHour(doc, t) ==
    [doc EXCEPT !.squirrel_status = "injured",
                !.squirrel_recovery_time = <<t + 3600>>]

\* '$set': {'squirrel_status': 'injured',
\*          'squirrel_recovery_time': datetime.utcnow() + timedelta(hours=2)}
SetInjured(doc, t) ==
    [doc EXCEPT !.squirrel_status = "injured",
                !.squirrel_recovery_time = <<t + RecoverySecs>>]

\* '$inc': {'acorns': acorns_found}
\* IncAcorns with the slip of '$set' in place of '$inc'
SetAcorns(doc, acorns_found) == [doc EXCEPT !.acorns = acorns_found]

IncAcorns(doc, acorns_found) == [doc EXCEPT !.acorns = @ + acorns_found]

\* SetLevel with the slip of leaving out the energy reward
SetLevelNoEnergy(doc, new_level) ==
    [doc EXCEPT !.level = new_level, !.stars = @ + 1]

\* '$set': {'level': new_level}, '$inc': {'stars': 1, 'energy': 5}
SetLevel(doc, new_level) ==
    [doc EXCEPT !.level = new_level, !.stars = @ + 1, !.energy = @ + RewardEnergy]

\* '$inc': {'stars': 1}
IncStars(doc) == [doc EXCEPT !.stars = @ + 1]

\* update_one({'user_id': user.id}, ...) leaving new_doc as the user's
\* document; with no document it changes nothing
update_one(coll, new_doc) ==
    IF TheUser \in DOMAIN coll THEN [coll EXCEPT ![TheUser] = new_doc] ELSE coll

----------------------------------------------------------------------------
(* The inputs of one button update: the callback data and the values the   *)
(* handler draws from random: roll = random.randint(0, 5), draws[i] = the  *)
(* i-th hazard's random.random() < t_prob for the hazards the loop reaches, *)
(* sky = random.randint(1, 3).                                             *)

Threats == <<"fox", "eagle", "storm">>
NoDraws == <<>>
\* the loop draws until the first success: the draws it makes
DrawSet == {<<TRUE>>, <<FALSE, TRUE>>, <<FALSE, FALSE, TRUE>>, <<FALSE, FALSE, FALSE>>}

\* button reads the location only to word its reply (location = ...), so the
\* updates enumerated take one of the three 'explore_<location>' buttons
Enumerated == {"explore_north"}

Updates ==
    {[data |-> d, roll |-> 0, draws |-> NoDraws, sky |-> 1] :
        d \in (Data \ ExploreData) \ {"collect_star"}}
    \cup {[data |-> "collect_star", roll |-> 0, draws |-> NoDraws, sky |-> n] :
            n \in 1..MaxStarsAvailable}
    \cup {[data |-> d, roll |-> k, draws |-> dr, sky |-> 1] :
            d \in Enumerated, k \in 0..MaxRoll, dr \in DrawSet}

\* for t_name, t_prob in threats: if random.random() < t_prob: threat = t_name; break
threat_of(draws) ==
    LET hits == {i \in DOMAIN draws : draws[i]}
    IN  IF hits = {} THEN "none"
        ELSE Threats[CHOOSE i \in hits : \A j \in hits : i <= j]

NoReply == ""
NoData == NewUser(0)

\* a handler's local state as button is entered at time t with update u
Enter(u, t) ==
    [pc |-> "find_one", t |-> t, data |-> u.data, roll |-> u.roll,
     draws |-> u.draws, sky |-> u.sky, user_data |-> NoData,
     acorns_found |-> 0, reply |-> NoReply, log |-> <<>>]

Done(loc, text) == [loc EXCEPT !.pc = "done", !.reply = text]
Goto(loc, pc) == [loc EXCEPT !.pc = pc]
Logged(loc, op) == [loc EXCEPT !.log = Append(@, op)]

----------------------------------------------------------------------------
(* button, one store operation per step.  Each Step* operator takes the    *)
(* collection and the handler's local state at one store operation and     *)
(* gives both after it, with the local code that follows up to the next    *)
(* store operation (or to the handler's return).                           *)

St(coll, loc) == [coll |-> coll, loc |-> loc]

\* the branch on query.data, entered once the squirrel is known to be healthy
Dispatch(loc) ==
    LET gt == get_game_time(loc.t)
    IN  CASE loc.data = "explore" ->
                IF loc.user_data.energy < 1
                THEN Done(loc, "tired")
                ELSE Done(loc, "where")
          [] loc.data \in ExploreData ->
                IF loc.user_data.energy < 1
                THEN Done(loc, "tired")
                ELSE Goto(loc, "deduct")
          [] loc.data = "collect_star" ->
                IF ~gt.is_night
                THEN Done(loc, "daytime")
                ELSE Done(loc, "stars")
          [] loc.data \in StarData -> Goto(loc, "inc_stars")
          [] loc.data = "status" -> Goto(loc, "status")
          [] loc.data = "help" -> Done(loc, "help")

\* user_data = users_collection.find_one({'user_id': user.id})
StepFindOne(coll, loc) ==
    IF TheUser \notin DOMAIN coll
    THEN St(coll, Done(Logged(loc, "find_one"), "error_start"))
    ELSE St(coll, [Logged(loc, "find_one") EXCEPT
                     !.pc = "update_energy", !.user_data = coll[TheUser]])

\* CheckSquirrel with the slip of <= for <: still resting at the recovery time
CheckSquirrelLate(loc) ==
    IF loc.user_data.squirrel_status = "injured"
    THEN LET recovery_time == loc.user_data.squirrel_recovery_time
         IN  IF recovery_time # None /\ loc.t <= recovery_time[1]
             THEN Done(loc, "resting")
             ELSE Goto(loc, "recover")
    ELSE Dispatch(loc)

\* the squirrel check after the energy update
CheckSquirrel(loc) ==
    IF loc.user_data.squirrel_status = "injured"
    THEN LET recovery_time == loc.user_data.squirrel_recovery_time
         IN  IF recovery_time # None /\ loc.t < recovery_time[1]
             THEN Done(loc, "resting")
             ELSE Goto(loc, "recover")
    ELSE Dispatch(loc)

\* new_energy = update_energy(user_data); the '$set' of energy and
\* last_energy_update; user_data['energy'] = new_energy
StepUpdateEnergy(coll, loc) ==
    LET new_energy == update_energy(loc.user_data, loc.t)
        l1 == [Logged(loc, "set_energy") EXCEPT !.user_data.energy = new_energy]
    IN  St(update_one(coll, SetEnergy(coll[TheUser], new_energy, loc.t)),
           CheckSquirrel(l1))

\* the '$set' that heals the squirrel; user_data['squirrel_status'] = 'healthy'
StepRecover(coll, loc) ==
    LET l1 == [Logged(loc, "set_healthy") EXCEPT
                 !.user_data.squirrel_status = "healthy"]
    IN  St(update_one(coll, SetHealthy(coll[TheUser])), Dispatch(l1))

\* acorns_found with the slip of '>= 0' in the star bonus
acorns_found_bonus(loc) ==
    LET star_bonus == IF loc.user_data.stars >= 0 THEN 2 ELSE 1
    IN  loc.roll * star_bonus

\* star_bonus and acorns_found, from the user_data read at the handler's start
acorns_found(loc) ==
    LET star_bonus == IF loc.user_data.stars > 0 THEN 2 ELSE 1
    IN  loc.roll * star_bonus

\* the '$inc' of energy by -1, then acorns_found and the threat loop
StepDeduct(coll, loc) ==
    LET l1 == [Logged(loc, "inc_energy") EXCEPT !.acorns_found = acorns_found(loc)]
    IN  St(update_one(coll, DeductEnergy(coll[TheUser])),
           IF threat_of(loc.draws) # "none"
           THEN Goto(l1, "injure") ELSE Goto(l1, "inc_acorns"))

\* if threat: the '$set' that injures the squirrel
StepInjure(coll, loc) ==
    St(update_one(coll, SetInjured(coll[TheUser], loc.t)),
       Done(Logged(loc, "set_injured"), threat_of(loc.draws)))

\* else: the '$inc' of acorns
StepIncAcorns(coll, loc) ==
    St(update_one(coll, IncAcorns(coll[TheUser], loc.acorns_found)),
       Goto(Logged(loc, "inc_acorns"), "reread"))

\* user_data = users_collection.find_one(...); the level-up test
\* StepReread with the slip of '>' in the level-up check
StepRereadAbove(coll, loc) ==
    LET l1 == [Logged(loc, "find_one") EXCEPT !.user_data = coll[TheUser]]
    IN  IF l1.user_data.acorns > l1.user_data.level * AcornsPerLevel
        THEN St(coll, Goto(l1, "level_up"))
        ELSE St(coll, Done(l1, "found"))

StepReread(coll, loc) ==
    LET l1 == [Logged(loc, "find_one") EXCEPT !.user_data = coll[TheUser]]
    IN  IF l1.user_data.acorns >= l1.user_data.level * AcornsPerLevel
        THEN St(coll, Goto(l1, "level_up"))
        ELSE St(coll, Done(l1, "found"))

\* new_level += 1; the '$set' of level with the '$inc' of stars and energy
StepLevelUp(coll, loc) ==
    LET new_level == loc.user_data.level + 1
    IN  St(update_one(coll, SetLevel(coll[TheUser], new_level)),
           Done(Logged(loc, "set_level"), "level_up"))

\* elif query.data.startswith('star_'): the '$inc' of stars
StepIncStars(coll, loc) ==
    St(update_one(coll, IncStars(coll[TheUser])), Done(Logged(loc, "inc_stars"), "caught"))

\* elif query.data == 'status': user_data = users_collection.find_one(...),
\* then the report of the record just read
StepStatus(coll, loc) ==
    LET l1 == [Logged(loc, "find_one") EXCEPT !.user_data = coll[TheUser]]
    IN  St(coll, Done(l1, "status"))

\* the next store operation of a handler that has not returned
Step(coll, loc) ==
    CASE loc.pc = "find_one" -> StepFindOne(coll, loc)
      [] loc.pc = "update_energy" -> StepUpdateEnergy(coll, loc)
      [] loc.pc = "recover" -> StepRecover(coll, loc)
      [] loc.pc = "deduct" -> StepDeduct(coll, loc)
      [] loc.pc = "injure" -> StepInjure(coll, loc)
      [] loc.pc = "inc_acorns" -> StepIncAcorns(coll, loc)
      [] loc.pc = "reread" -> StepReread(coll, loc)
      [] loc.pc = "level_up" -> StepLevelUp(coll, loc)
      [] loc.pc = "inc_stars" -> StepIncStars(coll, loc)
      [] loc.pc = "status" -> StepStatus(coll, loc)

\* a handler run from its current store operation to its return
RECURSIVE Run(_, _)
Run(coll, loc) ==
    IF loc.pc = "done" THEN St(coll, loc)
    ELSE LET s == Step(coll, loc) IN Run(s.coll, s.loc)

\* button(update, context), run alone: the collection and the handler's
\* final local state (its reply and the log of its store operations)
button(coll, u, t) == Run(coll, Enter(u, t))

----------------------------------------------------------------------------
(* start(update, context): the upsert with '$setOnInsert' *)

\* start with the slip of '$set' in place of '$setOnInsert'
start_set(coll, t) == [p \in {TheUser} |-> NewUser(t)]

start(coll, t) ==
    IF TheUser \in DOMAIN coll THEN coll
    ELSE [p \in {TheUser} |-> NewUser(t)]

----------------------------------------------------------------------------
(* Spec: the updates of one player handled one at a time, as              *)
(* Application.run_polling() hands them to the handlers.                   *)

Idle == [i \in {} |-> Enter(CHOOSE u \in Updates : TRUE, 0)]
NoGameTime == [game_day |-> 0, is_night |-> FALSE, time_to_next |-> 0]

\* the variables only the other specifications use
NoRnd == <<>>
NoRet == [none |-> TRUE]
Unused == rnd = NoRnd /\ ret = NoRet /\ offer = FALSE

Init ==
    /\ now = 0
    /\ users_collection = <<>>
    /\ h = Idle
    /\ users0 = <<>>
    /\ game_time = NoGameTime
    /\ Unused

\* wall-clock time passes between updates
Tick ==
    /\ now < MaxTicks * TickSecs
    /\ now' = now + TickSecs
    /\ UNCHANGED <<users_collection, h, users0, game_time, rnd, ret, offer>>

\* the /start command
Start ==
    /\ users_collection' = start(users_collection, now)
    /\ UNCHANGED <<now, h, users0, game_time, rnd, ret, offer>>

\* the counters the program leaves unbounded are capped here
WithinBounds(coll, u) ==
    TheUser \in DOMAIN coll =>
        /\ u.data \in ExploreData => coll[TheUser].level < MaxLevel
        /\ u.data \in StarData => coll[TheUser].stars < MaxStars

\* a callback query: button runs from entry to return
Button ==
    \E u \in Updates :
        /\ WithinBounds(users_collection, u)
        /\ users_collection' = button(users_collection, u, now).coll
        /\ UNCHANGED <<now, h, users0, game_time, rnd, ret, offer>>

Next == Tick \/ Start \/ Button

Spec == Init /\ [][Next]_vars

----------------------------------------------------------------------------
(* Properties of Spec.  A property of one handled update is stated of      *)
(* button applied, in a reachable state, to every update the player can    *)
(* send.                                                                   *)

HasDoc == TheUser \in DOMAIN users_collection
Doc == users_collection[TheUser]

\* the outcome of button on update u in the current state
Outcome(u) == button(users_collection, u, now)
DocAfter(u) == Outcome(u).coll[TheUser]

\* the squirrel is injured and its recovery time has not come
Resting == /\ Doc.squirrel_status = "injured"
           /\ Doc.squirrel_recovery_time # None
           /\ now < Doc.squirrel_recovery_time[1]

\* C1: the stored energy of every reachable player record is in 0..10.
C1_EnergyInRange == HasDoc => Doc.energy \in 0..MaxEnergy

\* C2: in every reachable player record the recovery time is set if and
\* only if the squirrel is injured.
C2_RecoveryIffInjured ==
    HasDoc => (Doc.squirrel_recovery_time # None <=> Doc.squirrel_status = "injured")

\* an injured record on which a later action was rejected
C2_Witness ==
    /\ HasDoc
    /\ Doc.squirrel_status = "injured"
    /\ Doc.squirrel_recovery_time # None
    /\ Doc.last_energy_update + RecoverySecs > Doc.squirrel_recovery_time[1]

\* C3: an 'explore' or 'explore_<location>' update handled when the energy
\* after regeneration is 0 is rejected and leaves the stored record as it was.
C3_TiredNoChange ==
    \A u \in Updates :
        (/\ HasDoc
         /\ u.data \in {"explore"} \cup ExploreData
         /\ update_energy(Doc, now) = 0)
        => LET out == Outcome(u)
           IN  /\ out.loc.reply \in {"tired", "resting"}
               /\ out.coll[TheUser] = Doc

\* C4: a 'collect_star' or 'star_<n>' update handled while game_day <= 6 is
\* rejected and leaves stars as it was.
C4_DayStarsUnchanged ==
    \A u \in Updates :
        (/\ HasDoc
         /\ u.data \in {"collect_star"} \cup StarData
         /\ get_game_time(now).game_day <= LastDayIndex)
        => LET out == Outcome(u)
           IN  /\ out.loc.reply \in {"daytime", "resting"}
               /\ out.coll[TheUser].stars = Doc.stars

\* C5: any update handled while the squirrel is injured and now is before
\* its recovery time is rejected and leaves the stored record as it was.
C5_RestingNoChange ==
    \A u \in Updates :
        (HasDoc /\ Resting)
        => LET out == Outcome(u)
           IN  /\ out.loc.reply = "resting"
               /\ out.coll[TheUser] = Doc

\* an exploration update that button accepts in the current state: the
\* squirrel is not resting and the energy after regeneration is at least 1
Accepted(u) ==
    /\ HasDoc
    /\ u.data \in ExploreData
    /\ ~Resting
    /\ update_energy(Doc, now) >= 1

Hazard(u) == \E i \in DOMAIN u.draws : u.draws[i]

C7_Step ==
    (HasDoc /\ HasDoc' /\ Doc'.level # Doc.level)
    => /\ Doc'.level = Doc.level + 1
       /\ Doc'.stars = Doc.stars + 1
       /\ Doc'.energy = update_energy(Doc, now) - 1 + RewardEnergy
       /\ Doc'.acorns >= Doc.level * AcornsPerLevel
       /\ \E u \in Updates :
            Accepted(u) /\ ~Hazard(u) /\ users_collection' = Outcome(u).coll

C7_Exactly ==
    \A u \in Updates :
        HasDoc =>
            LET after == DocAfter(u)
            IN  after.level # Doc.level
                <=> /\ Accepted(u)
                    /\ ~Hazard(u)
                    /\ after.acorns >= Doc.level * AcornsPerLevel

\* C7: a transition changes level only by raising it by 1, it does so exactly
\* when an accepted exploration without hazard leaves acorns >= level * 50
\* (level as before the transition), and the same transition adds 1 to stars
\* and leaves energy at the energy after regeneration - 1 + 5.
C7_LevelUp == [][C7_Step]_vars /\ []C7_Exactly

\* a record that has levelled up
C7_Witness == HasDoc /\ Doc.level = 2 /\ Doc.acorns >= AcornsPerLevel

\* C8: an accepted exploration in which a hazard triggers leaves the squirrel
\* injured with recovery time now + 2 hours, the energy at the energy after
\* regeneration - 1, and acorns, stars and level as they were.
C8_Hazard ==
    \A u \in Updates :
        (Accepted(u) /\ Hazard(u))
        => LET after == DocAfter(u)
           IN  /\ after.squirrel_status = "injured"
               /\ after.squirrel_recovery_time = <<now + 2 * 3600>>
               /\ after.energy = update_energy(Doc, now) - 1
               /\ after.acorns = Doc.acorns
               /\ after.stars = Doc.stars
               /\ after.level = Doc.level

\* a record just injured by a hazard, the exploration having cost 1 energy
C8_Witness ==
    /\ HasDoc
    /\ Doc.squirrel_status = "injured"
    /\ Doc.last_energy_update = now
    /\ Doc.squirrel_recovery_time = <<now + 2 * 3600>>
    /\ Doc.energy < MaxEnergy

\* the squirrel is injured and its recovery time has come
Recovering ==
    /\ HasDoc
    /\ Doc.squirrel_status = "injured"
    /\ Doc.squirrel_recovery_time # None
    /\ now >= Doc.squirrel_recovery_time[1]

\* C9: an update handled while the squirrel is injured and now >= its
\* recovery time is never answered with the resting message, and leaves the
\* record and the reply that the same update leaves on the same record with
\* a healthy squirrel and no recovery time.
C9_RecoverAndProceed ==
    \A u \in Updates :
        Recovering
        => LET healthy == [users_collection EXCEPT
                             ![TheUser].squirrel_status = "healthy",
                             ![TheUser].squirrel_recovery_time = None]
               asHealthy == button(healthy, u, now)
               asInjured == Outcome(u)
           IN  /\ asInjured.loc.reply # "resting"
               /\ asInjured.loc.reply = asHealthy.loc.reply
               /\ asInjured.coll = asHealthy.coll

\* an injured record at or past its recovery time, about to be acted on
C9_Witness == Recovering /\ now = Doc.squirrel_recovery_time[1]

----------------------------------------------------------------------------
(* SpecTime: get_game_time applied to the whole seconds 0..MaxSecond. *)

InitTime ==
    /\ now \in 0..MaxSecond
    /\ users_collection = <<>>
    /\ h = Idle
    /\ users0 = <<>>
    /\ game_time = NoGameTime
    /\ Unused

AskTime ==
    /\ game_time = NoGameTime
    /\ game_time' = get_game_time(now)
    /\ UNCHANGED <<now, users_collection, h, users0, rnd, ret, offer>>

SpecTime == InitTime /\ [][AskTime]_vars

\* C10: for every whole second t the game day is in 1..13, it is night
\* exactly when the game day is above 6, and the game day 4 hours later is
\* the same.
C10_TimeOracle ==
    game_time # NoGameTime
    => /\ game_time.game_day \in 1..13
       /\ game_time.is_night = (game_time.game_day > 6)
       /\ get_game_time(now + 14400).game_day = game_time.game_day

\* the last night of the second cycle has been asked for
C10_Witness ==
    /\ game_time # NoGameTime
    /\ now > 14400
    /\ game_time.game_day = 13
    /\ game_time.is_night

----------------------------------------------------------------------------
(* SpecConc: two callback queries of the same player in the update queue   *)
(* of the one Application that main builds and runs.  The Application      *)
(* takes an update from the queue when the handler of the one before has   *)
(* returned, and button makes its blocking store calls with no await from  *)
(* its find_one to its last update_one, so a handler that has been entered *)
(* takes its store operations one at a time until it returns.              *)

Handlers == {1, 2}

\* the energy and the acorns of the records the two handlers start from
ConcMaxEnergy == 2
ConcAcorns == {0, AcornsPerLevel - 1}

ConcDocs ==
    {[NewUser(0) EXCEPT !.energy = e, !.acorns = a] :
        e \in 0..ConcMaxEnergy, a \in ConcAcorns}

ConcUpdates ==
    {u \in Updates :
        /\ u.data \in Enumerated \cup {"star_1", "status"}
        /\ u.roll \in {0, MaxRoll}}

InitConc ==
    /\ now = 0
    /\ users0 \in {[p \in {TheUser} |-> d] : d \in ConcDocs}
    /\ users_collection = users0
    /\ h \in [Handlers -> {[Enter(u, 0) EXCEPT !.pc = "queued"] : u \in ConcUpdates}]
    /\ game_time = NoGameTime
    /\ Unused

\* handler i has been entered and has not returned
Running(i) == h[i].pc \notin {"queued", "done"}

\* Dequeue with the slip of entering a handler while another is at its store
\* operations (handlers run in threads or processes of their own)
DequeueOverlapping(i) ==
    /\ h[i].pc = "queued"
    /\ h' = [h EXCEPT ![i].pc = "find_one"]
    /\ UNCHANGED <<now, users_collection, users0, game_time, rnd, ret, offer>>

\* the Application takes update i from the queue and enters button with it
Dequeue(i) ==
    /\ h[i].pc = "queued"
    /\ \A j \in Handlers : ~Running(j)
    /\ h' = [h EXCEPT ![i].pc = "find_one"]
    /\ UNCHANGED <<now, users_collection, users0, game_time, rnd, ret, offer>>

\* handler i performs its next store operation
HandlerStep(i) ==
    /\ Running(i)
    /\ LET s == Step(users_collection, h[i])
       IN  /\ users_collection' = s.coll
           /\ h' = [h EXCEPT ![i] = s.loc]
    /\ UNCHANGED <<now, users0, game_time, rnd, ret, offer>>

NextConc == \E i \in Handlers : Dequeue(i) \/ HandlerStep(i)

SpecConc == InitConc /\ [][NextConc]_vars

\* the update handler i was entered with
UpdateOf(i) ==
    [data |-> h[i].data, roll |-> h[i].roll, draws |-> h[i].draws, sky |-> h[i].sky]

\* the collection after handler i and then handler j ran alone, one after the other
Serial(i, j) ==
    button(button(users0, UpdateOf(i), now).coll, UpdateOf(j), now).coll

----------------------------------------------------------------------------
(* SpecEnergy: update_energy applied to a document with energy 0..10 whose *)
(* last_energy_update is 0 or missing, at the whole seconds 0..MaxElapsed. *)

\* the longest elapsed time SpecEnergy draws, in seconds
MaxElapsed == 18600

InitEnergy ==
    /\ now \in 0..MaxElapsed
    /\ users_collection \in
         {[p \in {TheUser} |-> [energy |-> e, last_energy_update |-> 0]] :
             e \in 0..MaxEnergy}
         \cup {[p \in {TheUser} |-> [energy |-> e]] : e \in 0..MaxEnergy}
    /\ h = Idle
    /\ users0 = <<>>
    /\ game_time = NoGameTime
    /\ rnd = NoRnd
    /\ ret = NoRet
    /\ offer = FALSE

Recalculate ==
    /\ ret = NoRet
    /\ ret' = [new_energy |-> update_energy(users_collection[TheUser], now)]
    /\ UNCHANGED <<now, users_collection, h, users0, game_time, rnd, offer>>

SpecEnergy == InitEnergy /\ [][Recalculate]_vars

\* C11: for energy e in 0..10 and a last update `now` seconds ago (h = now /
\* 3600 hours) update_energy returns min(10, e + floor(2h)), which is 10 when
\* e = 10; with no last_energy_update it returns e.
C11_Regen ==
    ret # NoRet
    => LET e == users_collection[TheUser].energy
           halfHours == CHOOSE n \in 0..now : 1800 * n <= now /\ now < 1800 * (n + 1)
       IN  IF "last_energy_update" \in DOMAIN users_collection[TheUser]
           THEN /\ ret.new_energy = (IF e + halfHours < 10 THEN e + halfHours ELSE 10)
                /\ e = 10 => ret.new_energy = 10
           ELSE ret.new_energy = e

\* the recalculation truncated a started half hour and stayed below the cap
C11_Witness ==
    /\ ret # NoRet
    /\ "last_energy_update" \in DOMAIN users_collection[TheUser]
    /\ now = 3 * 1800 + 1799
    /\ users_collection[TheUser].energy = 4
    /\ ret.new_energy = 7

----------------------------------------------------------------------------
\* C12: /start for an unknown player creates a record with acorns 0, stars 0,
\* level 1, energy 10, status healthy and no recovery time; /start for an
\* existing player leaves the record as it is, whatever state it is in.
C12_StartGetOrCreate ==
    LET after == start(users_collection, now)
    IN  IF HasDoc
        THEN after = users_collection
        ELSE /\ DOMAIN after = {TheUser}
             /\ after[TheUser].acorns = 0
             /\ after[TheUser].stars = 0
             /\ after[TheUser].level = 1
             /\ after[TheUser].energy = 10
             /\ after[TheUser].squirrel_status = "healthy"
             /\ after[TheUser].squirrel_recovery_time = None

\* an existing record far from the one /start creates
C12_Witness ==
    /\ HasDoc
    /\ Doc.squirrel_status = "injured"
    /\ Doc.acorns > 0
    /\ Doc.energy < 5
    /\ Doc.last_energy_update < now

----------------------------------------------------------------------------
C13_NonNegative == HasDoc => (Doc.acorns >= 0 /\ Doc.stars >= 0)

C13_Step ==
    (HasDoc /\ HasDoc')
    => /\ Doc'.acorns >= Doc.acorns
       /\ Doc'.stars >= Doc.stars
       /\ Doc'.acorns # Doc.acorns
          => \E u \in Updates :
               /\ Accepted(u) /\ ~Hazard(u)
               /\ users_collection' = Outcome(u).coll
               /\ Doc'.acorns - Doc.acorns \in {u.roll, 2 * u.roll}
       /\ Doc'.stars # Doc.stars
          => /\ Doc'.stars = Doc.stars + 1
             /\ \E u \in Updates :
                  /\ users_collection' = Outcome(u).coll
                  /\ \/ u.data \in StarData
                     \/ Accepted(u) /\ ~Hazard(u) /\ Doc'.level = Doc.level + 1

\* C13: acorns and stars are never negative and no transition lowers either;
\* acorns changes only by the yield of an accepted exploration without
\* hazard, stars only by +1 on a star selection or a level-up.
C13_Counters == []C13_NonNegative /\ [][C13_Step]_vars

\* a record whose counters have both grown
C13_Witness == HasDoc /\ Doc.acorns > 0 /\ Doc.stars > 0

----------------------------------------------------------------------------
(* SpecRegen: from a record on which an action has just been handled at    *)
(* time 0 with energy 0..10, the clock advances and button handles updates *)
(* none of which is an accepted exploration. users0 keeps the record as it *)
(* was at time 0.                                                          *)

InitRegen ==
    /\ now = 0
    /\ users_collection \in
         {[p \in {TheUser} |-> [NewUser(0) EXCEPT !.energy = e]] :
             e \in 0..MaxEnergy}
    /\ h = Idle
    /\ users0 = users_collection
    /\ game_time = NoGameTime
    /\ Unused

\* a callback query that is not an accepted 'explore_<location>'
ButtonNoExplore ==
    \E u \in Updates :
        /\ ~Accepted(u)
        /\ WithinBounds(users_collection, u)
        /\ users_collection' = button(users_collection, u, now).coll
        /\ UNCHANGED <<now, h, users0, game_time, rnd, ret, offer>>

NextRegen == Tick \/ ButtonNoExplore

SpecRegen == InitRegen /\ [][NextRegen]_vars

\* C14: with energy e stored at an action handled at time 0 and no accepted
\* exploration since, the energy stored by an action handled at time now is
\* at least min(10, e + floor(2 * now / 1 hour)).
C14_RegenRate ==
    (HasDoc /\ Doc.last_energy_update = now)
    => Doc.energy >= Min(users0[TheUser].energy + ((2 * now) \div 3600), MaxEnergy)

----------------------------------------------------------------------------
(* SpecStars: Spec with the star offers on record. offer is TRUE from the  *)
(* reply that shows the star buttons (an accepted 'collect_star') until a  *)
(* star is caught. Explorations find no acorns, to keep the record small.  *)

StarsUpdates == {u \in Updates : u.roll = 0}

ButtonStars ==
    \E u \in StarsUpdates :
        LET out == button(users_collection, u, now)
        IN  /\ WithinBounds(users_collection, u)
            /\ users_collection' = out.coll
            /\ offer' = IF out.loc.reply = "stars" THEN TRUE
                        ELSE IF out.loc.reply = "caught" THEN FALSE
                        ELSE offer
            /\ UNCHANGED <<now, h, users0, game_time, rnd, ret>>

NextStars == Tick \/ Start \/ ButtonStars

SpecStars == Init /\ [][NextStars]_vars

C15_Step ==
    (HasDoc /\ HasDoc' /\ Doc'.level = Doc.level /\ Doc'.stars # Doc.stars)
    => /\ offer
       /\ ~offer'
       /\ Doc'.stars = Doc.stars + 1

\* C15: a star selection changes stars only while a 'collect_star' offer is
\* outstanding, by exactly 1, and uses the offer up; a 'star_<n>' update with
\* no outstanding offer leaves stars as it was.
C15_OfferOnly == [][C15_Step]_vars

----------------------------------------------------------------------------
(* SpecThreat: the threat loop of button as a function of the values that  *)
(* random.random() returns. A value is v / RandomGrain for v in            *)
(* 0..RandomGrain-1; rnd[i] is the value the i-th call would return.       *)

\* the number of values random.random() is drawn from
RandomGrain == 20

\* t_prob of fox, eagle, storm, in hundredths
ThreatPercent == <<10, 5, 5>>

\* random.random() < t_prob, for the i-th threat and the value v / RandomGrain
Below(v, i) == 100 * v < ThreatPercent[i] * RandomGrain

\* the loop without its break: every threat is drawn, the last success stays
threat_no_break(r) ==
    LET hits == {j \in 1..Len(Threats) : Below(r[j], j)}
    IN  [threat |-> IF hits = {} THEN "none"
                    ELSE Threats[CHOOSE j \in hits : \A k \in hits : k <= j],
         drawn |-> Len(Threats)]

\* the loop from the i-th threat on: the threat it leaves and the number of
\* calls of random.random() made when it ends
RECURSIVE threat_from(_, _)
threat_from(r, i) ==
    IF i > Len(Threats) THEN [threat |-> "none", drawn |-> Len(Threats)]
    ELSE IF Below(r[i], i) THEN [threat |-> Threats[i], drawn |-> i]
    ELSE threat_from(r, i + 1)

\* the whole loop, entered with threat = None
threat_loop(r) == threat_from(r, 1)

InitThreat ==
    /\ now = 0
    /\ users_collection = <<>>
    /\ h = Idle
    /\ users0 = <<>>
    /\ game_time = NoGameTime
    /\ rnd \in [1..Len(Threats) -> 0..(RandomGrain - 1)]
    /\ ret = NoRet
    /\ offer = FALSE

RollThreats ==
    /\ ret = NoRet
    /\ ret' = threat_loop(rnd)
    /\ UNCHANGED <<now, users_collection, h, users0, game_time, rnd, offer>>

SpecThreat == InitThreat /\ [][RollThreats]_vars

\* C16: over independent draws the applied hazard is fox if the fox draw
\* succeeds, else eagle if the eagle draw succeeds, else storm if the storm
\* draw succeeds, else none; the loop stops drawing at the first success, and
\* the draws it made are one of the draw sequences button is checked with,
\* naming the same hazard.
C16_FirstMatch ==
    ret # NoRet
    => LET fox == 10 * rnd[1] < RandomGrain
           eagle == 20 * rnd[2] < RandomGrain
           storm == 20 * rnd[3] < RandomGrain
           made == [j \in 1..ret.drawn |-> Below(rnd[j], j)]
       IN  /\ ret.threat = (IF fox THEN "fox" ELSE IF eagle THEN "eagle"
                            ELSE IF storm THEN "storm" ELSE "none")
           /\ ret.drawn = (IF fox THEN 1 ELSE IF eagle THEN 2 ELSE 3)
           /\ made \in DrawSet
           /\ threat_of(made) = ret.threat

\* the eagle was applied although the storm draw would have succeeded too
C16_Witness ==
    /\ ret # NoRet
    /\ rnd = <<RandomGrain - 1, 0, 0>>
    /\ ret.threat = "eagle"
    /\ ret.drawn = 2

----------------------------------------------------------------------------
\* C17: an accepted exploration without hazard adds k * starBonus to acorns
\* for some k in 0..5 (the roll), starBonus being 2 if stars was > 0 before
\* it and 1 otherwise, and takes 1 from the energy before any level-up reward
\* is added.
C17_Yield ==
    \A u \in Updates :
        (Accepted(u) /\ ~Hazard(u))
        => LET out == Outcome(u)
               after == out.coll[TheUser]
               log == out.loc.log
               starBonus == IF Doc.stars > 0 THEN 2 ELSE 1
               gain == after.acorns - Doc.acorns
               reward == IF after.level # Doc.level THEN 5 ELSE 0
           IN  /\ gain = u.roll * starBonus
               /\ \E k \in 0..5 : gain = k * starBonus
               /\ Doc.stars = 0 => gain \in 0..5
               /\ Doc.stars > 0 => gain \in {0, 2, 4, 6, 8, 10}
               /\ after.energy = update_energy(Doc, now) - 1 + reward
               /\ \E i \in DOMAIN log :
                    /\ log[i] = "inc_energy"
                    /\ \A j \in DOMAIN log : log[j] = "set_level" => i < j

\* a record that went from full energy to 10 acorns in one exploration
C17_Witness ==
    /\ HasDoc
    /\ Doc.stars > 0
    /\ Doc.acorns = 10
    /\ Doc.energy = MaxEnergy - 1
    /\ Doc.squirrel_status = "healthy"

----------------------------------------------------------------------------
\* C18: for every whole second t the day index get_game_time computes,
\* (floor(t / (cycle_duration / 13)) mod 13) + 1, is the specified
\* floor((t mod cycle_duration) / (cycle_duration / 13)) + 1, with
\* cycle_duration = 14400: the d + 1 for which the position in the cycle lies
\* in the d-th thirteenth of 14400 seconds.
C18_DayIndex ==
    game_time # NoGameTime
    => LET inCycle == now % 14400
           d == CHOOSE k \in 0..12 :
                    k * 14400 <= 13 * inCycle /\ 13 * inCycle < (k + 1) * 14400
       IN  game_time.game_day = d + 1

\* the first whole second of day 2 in the second cycle has been asked for
C18_Witness ==
    /\ game_time # NoGameTime
    /\ now = 14400 + 1108
    /\ game_time.game_day = 2

----------------------------------------------------------------------------
\* C19: in every state between actions of the sequential execution from a
\* new record acorns < level * 50, so the single level-up check leaves no
\* further level-up pending.
C19_NoPendingLevelUp == HasDoc => Doc.acorns < Doc.level * 50

\* a record that levelled up with the largest yield, passing the threshold
\* by more than a yield without star bonus can
C19_Witness ==
    /\ HasDoc
    /\ Doc.level = 2
    /\ Doc.acorns > AcornsPerLevel + MaxRoll

----------------------------------------------------------------------------
\* C20: for every reachable record whose last_energy_update is not after
\* now, the energy that the recalculation at the start of button writes is at
\* least the energy stored before it.
C20_RecalcNeverLowers ==
    (HasDoc /\ Doc.last_energy_update <= now)
    => update_energy(Doc, now) >= Doc.energy

====
